---- MODULE Spec2Model ----
(***************************************************************************)
(* Model of ffmpegbox: the admission gate (Service.ValidateTask), the      *)
(* command synthesizer (buildCommandArgs), output naming                   *)
(* (Service.GenerateOutputFilename), the ffmpeg configuration schema       *)
(* (FFmpegConfig.Validate, ParseResolution) and the task status set.       *)
(*                                                                         *)
(* Go strings are modelled as sequences of one-character strings, so that  *)
(* formatting (strconv.FormatInt, fmt.Sprintf), parsing (strconv.Atoi),    *)
(* regexp matching and filepath.Ext are computed character by character.   *)
(***************************************************************************)
EXTENDS Integers, Sequences, FiniteSets

VARIABLES
    cfg,       \* Service.cfg: the ffmpeg limits the service validates against
    task,      \* the models.Task handed to the service
    verr,      \* error returned by the last ValidateTask call on task
    args,      \* argument vector returned by the last buildCommandArgs call
    upload,    \* taskID and inputFilename handed to GenerateOutputFilename
    outName,   \* filename returned by the last GenerateOutputFilename call
    ffcfg,     \* config.FFmpegConfig as read from the configuration document
    cfgErr,    \* error returned by FFmpegConfig.Validate on ffcfg
    pixels,    \* result of FFmpegConfig.GetMaxResolutionPixels on ffcfg
    store,     \* task id -> TaskStatus of the stored tasks
    limited,   \* last concurrency count taken over store
    auth,      \* config.AuthConfig as read from the configuration document
    authErr,   \* error returned by AuthConfig.Validate on auth
    lookup,    \* last GetClientByAPIKey call: the key asked and the client found
    bin,       \* behaviour of the external binary when run with -version
    version,   \* result of the last Service.GetVersion call
    conf,      \* config.Config as read from the configuration document
    confErr    \* error returned by Config.Validate on conf

\* the state of the configuration document, its clients and the binary
rest == <<auth, authErr, lookup, bin, version, conf, confErr>>

vars == <<cfg, task, verr, args, upload, outName, ffcfg, cfgErr, pixels, store, limited, rest>>

----------------------------------------------------------------------------
(* Strings *)

Empty == <<>>

S_mp4 == <<"m", "p", "4">>
S_mp3 == <<"m", "p", "3">>
S_webm == <<"w", "e", "b", "m">>
S_flv == <<"f", "l", "v">>
S_libx264 == <<"l", "i", "b", "x", "2", "6", "4">>
S_libx265 == <<"l", "i", "b", "x", "2", "6", "5">>
S_mpeg4 == <<"m", "p", "e", "g", "4">>
S_aac == <<"a", "a", "c">>
S_copy == <<"c", "o", "p", "y">>
S_vorbis == <<"v", "o", "r", "b", "i", "s">>
S_fast == <<"f", "a", "s", "t">>
S_medium == <<"m", "e", "d", "i", "u", "m">>
S_veryslow == <<"v", "e", "r", "y", "s", "l", "o", "w">>
S_ffmpeg == <<"f", "f", "m", "p", "e", "g">>
S_in == <<"/", "i", "n", ".", "a", "v", "i">>
S_out == <<"/", "o", "u", "t", ".", "m", "p", "4">>

\* the elements of a sequence
Range(s) == {s[i] : i \in 1..Len(s)}

\* slices.Contains: linear scan for an equal element
Contains(s, v) == \E i \in 1..Len(s) : s[i] = v

DigitChars == <<"0", "1", "2", "3", "4", "5", "6", "7", "8", "9">>

IsDigit(c) == \E d \in 1..10 : DigitChars[d] = c

DigitValue(c) == (CHOOSE d \in 1..10 : DigitChars[d] = c) - 1

\* decimal digits of a non-negative integer, most significant first
RECURSIVE Digits(_)
Digits(n) == IF n < 10 THEN <<DigitChars[n + 1]>>
             ELSE Digits(n \div 10) \o <<DigitChars[(n % 10) + 1]>>

\* strconv.FormatInt(n, 10), strconv.Itoa(n) and fmt's %d verb
FormatInt(n) == IF n < 0 THEN <<"-">> \o Digits(-n) ELSE Digits(n)

----------------------------------------------------------------------------
(* Errors *)

\* the nil error
Nil == [cause |-> "nil", msg |-> "", ctx |-> <<>>]

\* errors.Wrapf(models.ErrInvalidParameter, msg, ...)
ErrInvalidParameter(m) == [cause |-> "ErrInvalidParameter", msg |-> m, ctx |-> <<>>]

\* errors.Wrap(err, context): ctx holds the contexts, outermost first
Wrap(err, c) == [err EXCEPT !.ctx = <<c>> \o @]

\* no call has been made yet
NotRun == [cause |-> "not run", msg |-> "", ctx |-> <<>>]

----------------------------------------------------------------------------
(* Bounds of the model *)

\* configured maxima of the service under check
TestMaxWidth == 12
TestMaxHeight == 10
TestMaxFramerate == 11

\* a bitrate that formats to several digits
TestBitrate == 128

----------------------------------------------------------------------------
(* Admission gate: Service.ValidateTask *)

isAllowedOutputFormat(c, format) == Contains(c.AllowedOutputFormats, format)

isAllowedVideoCodec(c, codec) == Contains(c.AllowedVideoCodecs, codec)

isAllowedAudioCodec(c, codec) == Contains(c.AllowedAudioCodecs, codec)

isAllowedPreset(c, preset) == Contains(c.AllowedPresets, preset)

\* variant: only a pair with both components non-positive is refused
validateResolution_BothNonPositive(c, width, height) ==
    IF width <= 0 /\ height <= 0
    THEN ErrInvalidParameter("resolution dimensions must be positive")
    ELSE IF width > c.MaxWidth
    THEN ErrInvalidParameter("width exceeds maximum")
    ELSE IF height > c.MaxHeight
    THEN ErrInvalidParameter("height exceeds maximum")
    ELSE Nil

\* variant: the height bound is checked before the width bound
validateResolution_HeightFirst(c, width, height) ==
    IF width <= 0 \/ height <= 0
    THEN ErrInvalidParameter("resolution dimensions must be positive")
    ELSE IF height > c.MaxHeight
    THEN ErrInvalidParameter("height exceeds maximum")
    ELSE IF width > c.MaxWidth
    THEN ErrInvalidParameter("width exceeds maximum")
    ELSE Nil

validateResolution(c, width, height) ==
    IF width <= 0 \/ height <= 0
    THEN ErrInvalidParameter("resolution dimensions must be positive")
    ELSE IF width > c.MaxWidth
    THEN ErrInvalidParameter("width exceeds maximum")
    ELSE IF height > c.MaxHeight
    THEN ErrInvalidParameter("height exceeds maximum")
    ELSE Nil

\* variant: the maximum itself is refused
validateFramerate_Exclusive(c, framerate) ==
    IF framerate < 1
    THEN ErrInvalidParameter("framerate must be at least 1")
    ELSE IF framerate >= c.MaxFramerate
    THEN ErrInvalidParameter("framerate exceeds maximum")
    ELSE Nil

validateFramerate(c, framerate) ==
    IF framerate < 1
    THEN ErrInvalidParameter("framerate must be at least 1")
    ELSE IF framerate > c.MaxFramerate
    THEN ErrInvalidParameter("framerate exceeds maximum")
    ELSE Nil

\* variant: only a zero bitrate is refused
validateBitrate_ZeroOnly(bitrate) ==
    IF bitrate = 0
    THEN ErrInvalidParameter("bitrate must be positive")
    ELSE Nil

validateBitrate(bitrate) ==
    IF bitrate <= 0
    THEN ErrInvalidParameter("bitrate must be positive")
    ELSE Nil

ValidateTask(c, t) ==
    IF ~isAllowedOutputFormat(c, t.OutputFormat)
    THEN ErrInvalidParameter("output format not allowed")
    ELSE IF t.VideoCodec # Empty /\ ~isAllowedVideoCodec(c, t.VideoCodec)
    THEN ErrInvalidParameter("video codec not allowed")
    ELSE IF t.AudioCodec # Empty /\ ~isAllowedAudioCodec(c, t.AudioCodec)
    THEN ErrInvalidParameter("audio codec not allowed")
    ELSE IF t.Preset # Empty /\ ~isAllowedPreset(c, t.Preset)
    THEN ErrInvalidParameter("preset not allowed")
    ELSE IF (t.Width > 0 \/ t.Height > 0)
            /\ validateResolution(c, t.Width, t.Height) # Nil
    THEN validateResolution(c, t.Width, t.Height)
    ELSE IF t.Framerate > 0 /\ validateFramerate(c, t.Framerate) # Nil
    THEN validateFramerate(c, t.Framerate)
    ELSE IF t.VideoBitrate # 0 /\ validateBitrate(t.VideoBitrate) # Nil
    THEN Wrap(validateBitrate(t.VideoBitrate), "video bitrate")
    ELSE IF t.AudioBitrate # 0 /\ validateBitrate(t.AudioBitrate) # Nil
    THEN Wrap(validateBitrate(t.AudioBitrate), "audio bitrate")
    ELSE Nil

----------------------------------------------------------------------------
(* Command synthesizer: buildCommandArgs *)

F_i == <<"-", "i">>
F_cv == <<"-", "c", ":", "v">>
F_ca == <<"-", "c", ":", "a">>
F_bv == <<"-", "b", ":", "v">>
F_ba == <<"-", "b", ":", "a">>
F_s == <<"-", "s">>
F_r == <<"-", "r">>
F_preset == <<"-", "p", "r", "e", "s", "e", "t">>
F_f == <<"-", "f">>
F_y == <<"-", "y">>

\* fmt.Sprintf("%dx%d", width, height)
SprintfRes(width, height) == FormatInt(width) \o <<"x">> \o FormatInt(height)

\* variant: the preset pair is appended before the framerate pair
buildCommandArgs_PresetFirst(inputPath, outputPath, t) ==
    LET a0 == <<F_i, inputPath>>
        a1 == IF t.VideoCodec # Empty THEN a0 \o <<F_cv, t.VideoCodec>> ELSE a0
        a2 == IF t.AudioCodec # Empty THEN a1 \o <<F_ca, t.AudioCodec>> ELSE a1
        a3 == IF t.VideoBitrate # 0
              THEN a2 \o <<F_bv, FormatInt(t.VideoBitrate)>> ELSE a2
        a4 == IF t.AudioBitrate # 0
              THEN a3 \o <<F_ba, FormatInt(t.AudioBitrate)>> ELSE a3
        a5 == IF t.Width > 0 /\ t.Height > 0
              THEN a4 \o <<F_s, SprintfRes(t.Width, t.Height)>> ELSE a4
        a6 == IF t.Preset # Empty THEN a5 \o <<F_preset, t.Preset>> ELSE a5
        a7 == IF t.Framerate > 0
              THEN a6 \o <<F_r, FormatInt(t.Framerate)>> ELSE a6
        a8 == Append(a7 \o <<F_f, t.OutputFormat>>, F_y)
    IN Append(a8, outputPath)

\* the successive appends of buildCommandArgs, a0 .. a8 being args after each
buildCommandArgs(inputPath, outputPath, t) ==
    LET a0 == <<F_i, inputPath>>
        a1 == IF t.VideoCodec # Empty THEN a0 \o <<F_cv, t.VideoCodec>> ELSE a0
        a2 == IF t.AudioCodec # Empty THEN a1 \o <<F_ca, t.AudioCodec>> ELSE a1
        a3 == IF t.VideoBitrate # 0
              THEN a2 \o <<F_bv, FormatInt(t.VideoBitrate)>> ELSE a2
        a4 == IF t.AudioBitrate # 0
              THEN a3 \o <<F_ba, FormatInt(t.AudioBitrate)>> ELSE a3
        a5 == IF t.Width > 0 /\ t.Height > 0
              THEN a4 \o <<F_s, SprintfRes(t.Width, t.Height)>> ELSE a4
        a6 == IF t.Framerate > 0
              THEN a5 \o <<F_r, FormatInt(t.Framerate)>> ELSE a5
        a7 == IF t.Preset # Empty THEN a6 \o <<F_preset, t.Preset>> ELSE a6
        a8 == Append(a7 \o <<F_f, t.OutputFormat>>, F_y)
    IN Append(a8, outputPath)

----------------------------------------------------------------------------
(* Inputs *)

\* the configuration of the service, as in the tests' config literals
TestCfg ==
    [ AllowedOutputFormats |-> <<S_webm, S_mp4>>,
      AllowedVideoCodecs   |-> <<S_libx265, S_libx264>>,
      AllowedAudioCodecs   |-> <<S_copy, S_aac>>,
      AllowedPresets       |-> <<S_fast, S_medium>>,
      MaxWidth             |-> TestMaxWidth,
      MaxHeight            |-> TestMaxHeight,
      MaxFramerate         |-> TestMaxFramerate ]

\* boundary values of an int field checked against 0 and a maximum
AroundMax(max) == {-1, 0, 1, max, max + 1}

Bitrates == {-1, 0, TestBitrate}

\* models.Task, the fields the service reads
Tasks ==
    [ OutputFormat : {S_mp4, S_flv},
      VideoCodec   : {Empty, S_libx264, S_mpeg4},
      AudioCodec   : {Empty, S_aac, S_vorbis},
      VideoBitrate : Bitrates,
      AudioBitrate : Bitrates,
      Width        : AroundMax(TestMaxWidth),
      Height       : AroundMax(TestMaxHeight),
      Framerate    : AroundMax(TestMaxFramerate),
      Preset       : {Empty, S_medium, S_veryslow} ]

\* the zero-value Task with only the output format set
MinimalTask(format) ==
    [ OutputFormat |-> format, VideoCodec |-> Empty, AudioCodec |-> Empty,
      VideoBitrate |-> 0, AudioBitrate |-> 0, Width |-> 0, Height |-> 0,
      Framerate |-> 0, Preset |-> Empty ]

NoUpload == [taskID |-> Empty, inputFilename |-> Empty]

NoFFCfg == [ BinaryPath |-> Empty, AllowedOutputFormats |-> <<>>,
             AllowedVideoCodecs |-> <<>>, AllowedAudioCodecs |-> <<>>,
             AllowedPresets |-> <<>>, MaxResolution |-> Empty, MaxFramerate |-> 0 ]

NoPixels == [val |-> 0, err |-> NotRun]

NoCount == [count |-> 0, statuses |-> <<>>]

NoAuth == [Enabled |-> FALSE, Clients |-> <<>>]

NoLookup == [called |-> FALSE, key |-> Empty, found |-> FALSE, index |-> 0]

NoBinary == [fails |-> TRUE, output |-> Empty]

NoVersion == [val |-> Empty, err |-> NotRun]

\* no configuration document, no client lookup, no version query
InitRest ==
    /\ auth = NoAuth
    /\ authErr = NotRun
    /\ lookup = NoLookup
    /\ bin = NoBinary
    /\ version = NoVersion
    /\ conf = <<>>
    /\ confErr = NotRun

----------------------------------------------------------------------------
(* Specification of the service: gate and synthesizer on one task *)

Init ==
    /\ cfg = TestCfg
    /\ task \in Tasks
    /\ verr = NotRun
    /\ args = <<>>
    /\ upload = NoUpload
    /\ outName = Empty
    /\ ffcfg = NoFFCfg
    /\ cfgErr = NotRun
    /\ pixels = NoPixels
    /\ store = <<>>
    /\ limited = NoCount
    /\ InitRest

DoValidateTask ==
    /\ verr' = ValidateTask(cfg, task)
    /\ UNCHANGED <<cfg, task, args, upload, outName, ffcfg, cfgErr, pixels, store, limited, rest>>

DoBuildCommand ==
    /\ args' = buildCommandArgs(S_in, S_out, task)
    /\ UNCHANGED <<cfg, task, verr, upload, outName, ffcfg, cfgErr, pixels, store, limited, rest>>

Next == DoValidateTask \/ DoBuildCommand

Spec == Init /\ [][Next]_vars

----------------------------------------------------------------------------
(* Output naming: Service.GenerateOutputFilename *)

\* os.IsPathSeparator on a Unix build
IsPathSeparator(c) == c = "/"

\* the loop of filepath.Ext, scanning back from position i
RECURSIVE ExtFrom(_, _)
ExtFrom(path, i) ==
    IF i < 1 \/ IsPathSeparator(path[i]) THEN Empty
    ELSE IF path[i] = "." THEN SubSeq(path, i, Len(path))
    ELSE ExtFrom(path, i - 1)

\* variant: the scan returns the suffix from the first dot it meets going forward
ExtFirstDot(path) ==
    IF \E i \in 1..Len(path) : path[i] = "."
    THEN SubSeq(path, CHOOSE i \in 1..Len(path) :
                        path[i] = "." /\ \A j \in 1..(i - 1) : path[j] # ".",
                Len(path))
    ELSE Empty

\* filepath.Ext
Ext(path) == ExtFrom(path, Len(path))

\* strings.HasSuffix
HasSuffix(s, suffix) ==
    /\ Len(s) >= Len(suffix)
    /\ SubSeq(s, Len(s) - Len(suffix) + 1, Len(s)) = suffix

\* strings.TrimSuffix
TrimSuffix(s, suffix) ==
    IF HasSuffix(s, suffix) THEN SubSeq(s, 1, Len(s) - Len(suffix)) ELSE s

S_processed == <<"-", "p", "r", "o", "c", "e", "s", "s", "e", "d", ".">>

GenerateOutputFilename(taskID, inputFilename, t) ==
    LET trimmed == TrimSuffix(inputFilename, Ext(inputFilename))
        baseName == IF trimmed = Empty THEN taskID ELSE trimmed
        extension == t.OutputFormat
    IN baseName \o S_processed \o extension

\* longest input filename
MaxNameLen == 3

NameChars == {"a", "b", ".", "/"}

\* the strings over NameChars of length at most n
RECURSIVE Strings(_, _)
Strings(chars, n) ==
    IF n = 0 THEN {Empty}
    ELSE Strings(chars, n - 1)
         \cup {Append(s, c) : s \in Strings(chars, n - 1), c \in chars}

S_t1 == <<"t", "1">>

Uploads == [taskID : {S_t1}, inputFilename : Strings(NameChars, MaxNameLen)]

InitNaming ==
    /\ cfg = TestCfg
    /\ task \in {MinimalTask(f) : f \in {S_mp4, S_mp3}}
    /\ verr = NotRun
    /\ args = <<>>
    /\ upload \in Uploads
    /\ outName = Empty
    /\ ffcfg = NoFFCfg
    /\ cfgErr = NotRun
    /\ pixels = NoPixels
    /\ store = <<>>
    /\ limited = NoCount
    /\ InitRest

DoGenerateOutputFilename ==
    /\ outName' = GenerateOutputFilename(upload.taskID, upload.inputFilename, task)
    /\ UNCHANGED <<cfg, task, verr, args, upload, ffcfg, cfgErr, pixels, store, limited, rest>>

NextNaming == DoGenerateOutputFilename

SpecNaming == InitNaming /\ [][NextNaming]_vars

\* positions of the dots of the last path element of name
ExtDots(name) ==
    {i \in 1..Len(name) :
        name[i] = "." /\ \A j \in i..Len(name) : name[j] # "/"}

\* name without the suffix that starts at the last dot of its last element
Stripped(name) ==
    IF ExtDots(name) = {} THEN name
    ELSE SubSeq(name, 1, (CHOOSE i \in ExtDots(name) :
                             \A j \in ExtDots(name) : j <= i) - 1)

\* C7: GenerateOutputFilename returns base + "-processed." + outputFormat,
\* base being the input filename with the suffix from the last dot of its last
\* path element removed, the task id when that leaves nothing (an empty name
\* or a dotfile), and the whole name when it has no extension.
C7_OutputFilename ==
    outName # Empty =>
        LET stripped == Stripped(upload.inputFilename)
            base == IF stripped = Empty THEN upload.taskID ELSE stripped
        IN /\ outName = base \o S_processed \o task.OutputFormat
           /\ (\A i \in 1..Len(upload.inputFilename) :
                  upload.inputFilename[i] # ".")
                 /\ upload.inputFilename # Empty
                 => outName = upload.inputFilename \o S_processed \o task.OutputFormat

\* a dotfile fell back to the task id
C7_Witness ==
    /\ upload.inputFilename = <<".", "a", "b">>
    /\ outName = S_t1 \o S_processed \o S_mp3

----------------------------------------------------------------------------
(* Configuration schema: FFmpegConfig.Validate and the resolution accessors *)

\* upper limit of max_framerate
MaxFramerateLimit == 240

\* strconv.ErrSyntax, as returned by strconv.Atoi
ErrSyntax == [cause |-> "ErrSyntax", msg |-> "invalid syntax", ctx |-> <<>>]

\* regexp.MatchString(`^\d+x\d+$`, resolution)
isValidResolution(resolution) ==
    \E k \in 2..(Len(resolution) - 1) :
        /\ resolution[k] = "x"
        /\ \A i \in 1..(k - 1) : IsDigit(resolution[i])
        /\ \A i \in (k + 1)..Len(resolution) : IsDigit(resolution[i])

\* strings.Split(s, sep) for a one-character separator
RECURSIVE Split(_, _)
Split(s, sep) ==
    IF \E i \in 1..Len(s) : s[i] = sep
    THEN LET k == CHOOSE i \in 1..Len(s) :
                     s[i] = sep /\ \A j \in 1..(i - 1) : s[j] # sep
         IN <<SubSeq(s, 1, k - 1)>> \o Split(SubSeq(s, k + 1, Len(s)), sep)
    ELSE <<s>>

\* value of a string of decimal digits
RECURSIVE DigitsValue(_)
DigitsValue(s) ==
    IF s = Empty THEN 0
    ELSE 10 * DigitsValue(SubSeq(s, 1, Len(s) - 1)) + DigitValue(s[Len(s)])

\* strconv.Atoi: an optional sign, then at least one digit and digits only
\* (its range error needs 19 digits or more, beyond MaxResLen)
Atoi(s) ==
    LET signed == Len(s) > 0 /\ s[1] \in {"+", "-"}
        body   == IF signed THEN Tail(s) ELSE s
    IN IF body = Empty \/ \E i \in 1..Len(body) : ~IsDigit(body[i])
       THEN [val |-> 0, err |-> ErrSyntax]
       ELSE [val |-> IF signed /\ s[1] = "-" THEN -DigitsValue(body)
                     ELSE DigitsValue(body),
             err |-> Nil]

ParseResolution(resolution) ==
    IF ~isValidResolution(resolution)
    THEN [width |-> 0, height |-> 0,
          err |-> ErrInvalidParameter("invalid resolution format")]
    ELSE LET parts  == Split(resolution, "x")
             width  == Atoi(parts[1])
             height == Atoi(parts[2])
         IN IF width.err # Nil
            THEN [width |-> 0, height |-> 0,
                  err |-> Wrap(width.err, "invalid width in resolution")]
            ELSE IF height.err # Nil
            THEN [width |-> 0, height |-> 0,
                  err |-> Wrap(height.err, "invalid height in resolution")]
            ELSE IF width.val < 1 \/ height.val < 1
            THEN [width |-> 0, height |-> 0,
                  err |-> ErrInvalidParameter("resolution dimensions must be positive")]
            ELSE [width |-> width.val, height |-> height.val, err |-> Nil]

GetMaxResolutionPixels(f) ==
    LET r == ParseResolution(f.MaxResolution)
    IN IF r.err # Nil THEN [val |-> 0, err |-> r.err]
       ELSE [val |-> r.width * r.height, err |-> Nil]

FFmpegConfigValidate(f) ==
    IF f.BinaryPath = Empty
    THEN ErrInvalidParameter("binary_path cannot be empty")
    ELSE IF Len(f.AllowedOutputFormats) = 0
    THEN ErrInvalidParameter("allowed_output_formats cannot be empty")
    ELSE IF Len(f.AllowedVideoCodecs) = 0
    THEN ErrInvalidParameter("allowed_video_codecs cannot be empty")
    ELSE IF Len(f.AllowedAudioCodecs) = 0
    THEN ErrInvalidParameter("allowed_audio_codecs cannot be empty")
    ELSE IF Len(f.AllowedPresets) = 0
    THEN ErrInvalidParameter("allowed_presets cannot be empty")
    ELSE IF ~isValidResolution(f.MaxResolution)
    THEN ErrInvalidParameter("invalid max_resolution format")
    ELSE IF f.MaxFramerate < 1 \/ f.MaxFramerate > MaxFramerateLimit
    THEN ErrInvalidParameter("max_framerate must be 1-240")
    ELSE Nil

\* longest max_resolution string
MaxResLen == 4

ResChars == {"0", "2", "x"}

\* config.FFmpegConfig documents: each field empty or set, every short resolution
FFmpegConfigs ==
    [ BinaryPath           : {Empty, S_ffmpeg},
      AllowedOutputFormats : {<<>>, <<S_mp4>>},
      AllowedVideoCodecs   : {<<>>, <<S_libx264>>},
      AllowedAudioCodecs   : {<<>>, <<S_aac>>},
      AllowedPresets       : {<<>>, <<S_medium>>},
      MaxResolution        : Strings(ResChars, MaxResLen),
      MaxFramerate         : {0, 1, MaxFramerateLimit, MaxFramerateLimit + 1} ]

InitConfig ==
    /\ cfg = TestCfg
    /\ task = MinimalTask(S_mp4)
    /\ verr = NotRun
    /\ args = <<>>
    /\ upload = NoUpload
    /\ outName = Empty
    /\ ffcfg \in FFmpegConfigs
    /\ cfgErr = NotRun
    /\ pixels = NoPixels
    /\ store = <<>>
    /\ limited = NoCount
    /\ InitRest

\* Config.Validate's ffmpeg section, run by Load on the document read
DoValidateFFmpegConfig ==
    /\ cfgErr' = FFmpegConfigValidate(ffcfg)
    /\ UNCHANGED <<cfg, task, verr, args, upload, outName, ffcfg, pixels, store, limited, rest>>

DoGetMaxResolutionPixels ==
    /\ pixels' = GetMaxResolutionPixels(ffcfg)
    /\ UNCHANGED <<cfg, task, verr, args, upload, outName, ffcfg, cfgErr, store, limited, rest>>

NextConfig == DoValidateFFmpegConfig \/ DoGetMaxResolutionPixels

SpecConfig == InitConfig /\ [][NextConfig]_vars

\* C10: a configuration accepted by FFmpegConfig.Validate has a max resolution
\* of digits, "x", digits with both components >= 1, so ParseResolution and
\* GetMaxResolutionPixels return no error on it.
C10_ValidatedResolutionParses ==
    cfgErr = Nil =>
        /\ ParseResolution(ffcfg.MaxResolution).err = Nil
        /\ ParseResolution(ffcfg.MaxResolution).width >= 1
        /\ ParseResolution(ffcfg.MaxResolution).height >= 1
        /\ pixels.err # NotRun => pixels.err = Nil

----------------------------------------------------------------------------
(* Task status: TaskStatus, OneOf, LimitedList, and the lifecycle *)

StatusNew == 0
StatusReadyToStart == 1
StatusProcessing == 2
StatusCompleted == 3
StatusFailed == 4

TaskStatuses ==
    {StatusNew, StatusReadyToStart, StatusProcessing, StatusCompleted, StatusFailed}

\* TaskStatus.OneOf: slices.Contains(statuses, s)
OneOf(s, statuses) == Contains(statuses, s)

\* variant: completed tasks are counted too
LimitedList_WithCompleted(s) ==
    <<StatusNew, StatusReadyToStart, StatusProcessing, StatusCompleted>>

\* TaskStatus.LimitedList; the receiver s is not read
LimitedList(s) == <<StatusNew, StatusReadyToStart, StatusProcessing>>

\* most tasks in the store
MaxTasks == 3

\* a stored task: the zero-value Task has status new and no error message
NewTask == [Status |-> StatusNew, ErrorMessage |-> ""]

\* number of tasks of the store occupying a slot
RECURSIVE CountLimited(_)
CountLimited(tasks) ==
    IF tasks = <<>> THEN 0
    ELSE CountLimited(Tail(tasks))
         + (IF OneOf(Head(tasks).Status, LimitedList(Head(tasks).Status))
            THEN 1 ELSE 0)

InitLifecycle ==
    /\ cfg = TestCfg
    /\ task = MinimalTask(S_mp4)
    /\ verr = NotRun
    /\ args = <<>>
    /\ upload = NoUpload
    /\ outName = Empty
    /\ ffcfg = NoFFCfg
    /\ cfgErr = NotRun
    /\ pixels = NoPixels
    /\ store = <<>>
    /\ limited = NoCount
    /\ InitRest

others == <<cfg, task, verr, args, upload, outName, ffcfg, cfgErr, pixels>>

CreateTask ==
    /\ Len(store) < MaxTasks
    /\ store' = Append(store, NewTask)
    /\ UNCHANGED <<others, limited, rest>>

MarkReady(i) ==
    /\ store[i].Status = StatusNew
    /\ store' = [store EXCEPT ![i].Status = StatusReadyToStart]
    /\ UNCHANGED <<others, limited, rest>>

StartProcessing(i) ==
    /\ store[i].Status = StatusReadyToStart
    /\ store' = [store EXCEPT ![i].Status = StatusProcessing]
    /\ UNCHANGED <<others, limited, rest>>

Complete(i) ==
    /\ store[i].Status = StatusProcessing
    /\ store' = [store EXCEPT ![i].Status = StatusCompleted]
    /\ UNCHANGED <<others, limited, rest>>

\* variant: a task is failed whatever its status
Fail_FromAnyStatus(i) ==
    /\ store' = [store EXCEPT ![i] = [Status |-> StatusFailed,
                                      ErrorMessage |-> "execution error"]]
    /\ UNCHANGED <<others, limited, rest>>

Fail(i) ==
    /\ store[i].Status \in {StatusNew, StatusReadyToStart, StatusProcessing}
    /\ store' = [store EXCEPT ![i] = [Status |-> StatusFailed,
                                      ErrorMessage |-> "execution error"]]
    /\ UNCHANGED <<others, limited, rest>>

\* the scheduler counts the tasks occupying a slot
DoCountLimited ==
    /\ limited' = [count |-> CountLimited(store),
                   statuses |-> [i \in 1..Len(store) |-> store[i].Status]]
    /\ UNCHANGED <<others, store, rest>>

NextLifecycle ==
    \/ CreateTask
    \/ \E i \in 1..Len(store) : MarkReady(i)
    \/ \E i \in 1..Len(store) : StartProcessing(i)
    \/ \E i \in 1..Len(store) : Complete(i)
    \/ \E i \in 1..Len(store) : Fail(i)
    \/ DoCountLimited

SpecLifecycle == InitLifecycle /\ [][NextLifecycle]_vars

\* C8: LimitedList is new, ready_to_start, processing whatever the receiver;
\* s.OneOf(LimitedList()...) is true exactly for those three statuses; the
\* concurrency count of a collection of tasks is the number of its tasks in
\* those statuses.
C8_LimitedStatuses ==
    /\ \A r \in TaskStatuses :
          Range(LimitedList(r)) = {StatusNew, StatusReadyToStart, StatusProcessing}
    /\ \A s, r \in TaskStatuses :
          OneOf(s, LimitedList(r)) <=>
             s \in {StatusNew, StatusReadyToStart, StatusProcessing}
    /\ limited.count =
          Cardinality({i \in 1..Len(limited.statuses) :
              limited.statuses[i] \in
                 {StatusNew, StatusReadyToStart, StatusProcessing}})

\* tasks in new, processing and completed were counted as 2
C8_Witness ==
    /\ limited.statuses = <<StatusNew, StatusProcessing, StatusCompleted>>
    /\ limited.count = 2

\* a status change that follows the lifecycle
Forward(a, b) ==
    \/ a = StatusNew /\ b = StatusReadyToStart
    \/ a = StatusReadyToStart /\ b = StatusProcessing
    \/ a = StatusProcessing /\ b = StatusCompleted
    \/ a \in {StatusNew, StatusReadyToStart, StatusProcessing} /\ b = StatusFailed

\* C9: a task's status only moves forward along new, ready_to_start,
\* processing, completed, or to failed from a non-terminal status; it never
\* moves back, and a completed or failed task keeps its status.
C9_LifecycleMonotonic ==
    [][/\ Len(store') >= Len(store)
       /\ \A i \in 1..Len(store) :
             \/ store'[i].Status = store[i].Status
             \/ Forward(store[i].Status, store'[i].Status)]_vars

\* one task ran to completion and another failed while processing
C9_Witness ==
    \E i, j \in 1..Len(store) :
        /\ store[i].Status = StatusCompleted
        /\ store[j].Status = StatusFailed
        /\ store[j].ErrorMessage # ""

----------------------------------------------------------------------------
(* Properties of the admission gate and the synthesizer *)

\* the acceptance condition of the admission gate, field by field
Admissible(c, t) ==
    /\ t.OutputFormat \in Range(c.AllowedOutputFormats)
    /\ t.VideoCodec = Empty \/ t.VideoCodec \in Range(c.AllowedVideoCodecs)
    /\ t.AudioCodec = Empty \/ t.AudioCodec \in Range(c.AllowedAudioCodecs)
    /\ t.Preset = Empty \/ t.Preset \in Range(c.AllowedPresets)
    /\ (t.Width > 0 \/ t.Height > 0) =>
          /\ t.Width > 0 /\ t.Height > 0
          /\ t.Width <= c.MaxWidth /\ t.Height <= c.MaxHeight
    /\ t.Framerate > 0 => t.Framerate <= c.MaxFramerate
    /\ ~(t.VideoBitrate < 0)
    /\ ~(t.AudioBitrate < 0)

\* the format, codec and preset checks all pass
PassesListChecks(c, t) ==
    /\ t.OutputFormat \in Range(c.AllowedOutputFormats)
    /\ t.VideoCodec = Empty \/ t.VideoCodec \in Range(c.AllowedVideoCodecs)
    /\ t.AudioCodec = Empty \/ t.AudioCodec \in Range(c.AllowedAudioCodecs)
    /\ t.Preset = Empty \/ t.Preset \in Range(c.AllowedPresets)

\* C1: ValidateTask returns nil exactly when the format is allowed, each of
\* video codec, audio codec and preset is empty or allowed, a requested
\* resolution has both components positive and within MaxWidth/MaxHeight, a
\* requested framerate is within MaxFramerate and neither bitrate is negative;
\* a task with only an allowed format is accepted, and a format outside the
\* list is refused with the output-format error.
C1_ValidateTaskIff ==
    verr # NotRun =>
        /\ (verr = Nil) <=> Admissible(cfg, task)
        /\ (\E f \in Range(cfg.AllowedOutputFormats) : task = MinimalTask(f))
              => verr = Nil
        /\ task.OutputFormat \notin Range(cfg.AllowedOutputFormats)
              => verr = ErrInvalidParameter("output format not allowed")

\* a task with every optional field set, at the configured maxima, was accepted
C1_Witness ==
    /\ verr = Nil
    /\ task.VideoCodec # Empty /\ task.AudioCodec # Empty /\ task.Preset # Empty
    /\ task.Width = cfg.MaxWidth /\ task.Height = cfg.MaxHeight
    /\ task.Framerate = cfg.MaxFramerate
    /\ task.VideoBitrate > 0 /\ task.AudioBitrate > 0

\* exactly one of width and height is zero and the other is positive
OneSidedResolution(t) ==
    \/ t.Width = 0 /\ t.Height > 0
    \/ t.Width > 0 /\ t.Height = 0

\* C2: a task whose width/height pair has exactly one zero component and the
\* other positive is refused by ValidateTask whatever its other fields are, and
\* with the "resolution dimensions must be positive" error when the format,
\* codec and preset checks pass.
C2_OneSidedResolutionFails ==
    (verr # NotRun /\ OneSidedResolution(task)) =>
        /\ verr # Nil
        /\ verr.cause = "ErrInvalidParameter"
        /\ PassesListChecks(cfg, task) =>
              verr = ErrInvalidParameter("resolution dimensions must be positive")

\* a width without a height was refused although every other field is in policy
C2_Witness ==
    /\ task.Width > 0 /\ task.Height = 0
    /\ task.Framerate = cfg.MaxFramerate /\ task.VideoBitrate > 0
    /\ verr = ErrInvalidParameter("resolution dimensions must be positive")

\* C3: for positive width and height on a task that passes the format, codec
\* and preset checks, a width above MaxWidth yields the width "exceeds maximum"
\* error (also when the height exceeds MaxHeight too), and a width within
\* MaxWidth with a height above MaxHeight yields the height error.
C3_ExceededAxisIsCited ==
    (verr # NotRun /\ task.Width > 0 /\ task.Height > 0
       /\ PassesListChecks(cfg, task)) =>
        /\ task.Width > cfg.MaxWidth
              => verr = ErrInvalidParameter("width exceeds maximum")
        /\ (task.Width <= cfg.MaxWidth /\ task.Height > cfg.MaxHeight)
              => verr = ErrInvalidParameter("height exceeds maximum")

\* both axes exceed their maxima and the width error was returned
C3_Witness ==
    /\ task.Width > cfg.MaxWidth /\ task.Height > cfg.MaxHeight
    /\ verr = ErrInvalidParameter("width exceeds maximum")

\* C4: every task accepted by ValidateTask has width and height both positive
\* or both zero; none has only one of the two set, none has a negative one.
C4_AcceptedResolutionInvariant ==
    verr = Nil =>
        \/ task.Width > 0 /\ task.Height > 0
        \/ task.Width = 0 /\ task.Height = 0

\* the pair <<flag, value>> when present, nothing otherwise
Opt(present, flag, value) == IF present THEN <<flag, value>> ELSE <<>>

\* the argument vector of the synthesizer, with the -r pair present when rate
ExpectedArgs(inputPath, outputPath, t, rate) ==
    <<F_i, inputPath>>
    \o Opt(t.VideoCodec # Empty, F_cv, t.VideoCodec)
    \o Opt(t.AudioCodec # Empty, F_ca, t.AudioCodec)
    \o Opt(t.VideoBitrate # 0, F_bv, FormatInt(t.VideoBitrate))
    \o Opt(t.AudioBitrate # 0, F_ba, FormatInt(t.AudioBitrate))
    \o Opt(t.Width > 0 /\ t.Height > 0, F_s,
           FormatInt(t.Width) \o <<"x">> \o FormatInt(t.Height))
    \o Opt(rate, F_r, FormatInt(t.Framerate))
    \o Opt(t.Preset # Empty, F_preset, t.Preset)
    \o <<F_f, t.OutputFormat, F_y, outputPath>>

\* number of positions of s holding v
Occurrences(s, v) == Cardinality({i \in 1..Len(s) : s[i] = v})

\* C5 (as stated): buildCommandArgs returns -i, the input path, the optional
\* pairs in the fixed order, then -f, the format, -y, the output path; each
\* optional pair is present exactly when its string field is non-empty or its
\* number field is non-zero, -s exactly when width and height are both > 0.
C5_ArgsAsStated ==
    args # <<>> => args = ExpectedArgs(S_in, S_out, task, task.Framerate # 0)

\* C5 (amended): as stated, except that the -r pair is present exactly when
\* the framerate is > 0; a task with only the format set yields
\* [-i, in, -f, fmt, -y, out].
C5_ArgsExact ==
    args # <<>> =>
        /\ args = ExpectedArgs(S_in, S_out, task, task.Framerate > 0)
        /\ task = MinimalTask(task.OutputFormat)
              => args = <<F_i, S_in, F_f, task.OutputFormat, F_y, S_out>>
        /\ \A f \in {F_i, F_cv, F_ca, F_bv, F_ba, F_s, F_r, F_preset, F_f, F_y} :
              Occurrences(args, f) <= 1

\* a task with every optional field set was synthesized in full
C5_Witness ==
    /\ Len(args) = 20
    /\ args[11] = F_s
    /\ args[12] = FormatInt(cfg.MaxWidth) \o <<"x">> \o FormatInt(cfg.MaxHeight)
    /\ task.Framerate > 0 /\ task.VideoBitrate > 0 /\ task.AudioBitrate > 0

----------------------------------------------------------------------------
(* Configuration schema: AuthConfig.Validate and AuthConfig.GetClientByAPIKey *)

\* variant: the keys seen are never recorded
ValidateClients_KeysNotRecorded(clients, i, seenKeys, seenNames) ==
    LET RECURSIVE Loop(_, _, _)
        Loop(k, keys, names) ==
            IF k > Len(clients) THEN Nil
            ELSE IF clients[k].APIKey = Empty
            THEN ErrInvalidParameter("client: api_key cannot be empty")
            ELSE IF clients[k].APIKey \in keys
            THEN ErrInvalidParameter("client: duplicate api_key")
            ELSE IF clients[k].Name = Empty
            THEN ErrInvalidParameter("client: name cannot be empty")
            ELSE IF clients[k].Name \in names
            THEN ErrInvalidParameter("client: duplicate name")
            ELSE IF clients[k].MaxParallelTasks < 1
            THEN ErrInvalidParameter("client: max_parallel_tasks must be >= 1")
            ELSE Loop(k + 1, keys, names \cup {clients[k].Name})
    IN Loop(i, seenKeys, seenNames)

\* the loop of AuthConfig.Validate from client i on, seenKeys and seenNames
\* being the keys of the two maps; the client index is left out of the messages
RECURSIVE ValidateClients(_, _, _, _)
ValidateClients(clients, i, seenKeys, seenNames) ==
    IF i > Len(clients) THEN Nil
    ELSE IF clients[i].APIKey = Empty
    THEN ErrInvalidParameter("client: api_key cannot be empty")
    ELSE IF clients[i].APIKey \in seenKeys
    THEN ErrInvalidParameter("client: duplicate api_key")
    ELSE IF clients[i].Name = Empty
    THEN ErrInvalidParameter("client: name cannot be empty")
    ELSE IF clients[i].Name \in seenNames
    THEN ErrInvalidParameter("client: duplicate name")
    ELSE IF clients[i].MaxParallelTasks < 1
    THEN ErrInvalidParameter("client: max_parallel_tasks must be >= 1")
    ELSE ValidateClients(clients, i + 1, seenKeys \cup {clients[i].APIKey},
                         seenNames \cup {clients[i].Name})

AuthConfigValidate(a) ==
    IF ~a.Enabled THEN Nil
    ELSE IF Len(a.Clients) = 0
    THEN ErrInvalidParameter("auth is enabled but no clients configured")
    ELSE ValidateClients(a.Clients, 1, {}, {})

\* the scan of AuthConfig.GetClientByAPIKey from client i on: the index of
\* the client returned, 0 for nil
RECURSIVE ScanClients(_, _, _)
ScanClients(clients, i, apiKey) ==
    IF i > Len(clients) THEN 0
    ELSE IF clients[i].APIKey = apiKey THEN i
    ELSE ScanClients(clients, i + 1, apiKey)

GetClientByAPIKey(a, apiKey) == ScanClients(a.Clients, 1, apiKey)

\* most clients in the document
MaxClients == 2

S_key1 == <<"k", "1">>
S_key2 == <<"k", "2">>
S_alice == <<"a", "l", "i", "c", "e">>
S_bob == <<"b", "o", "b">>

APIKeys == {Empty, S_key1, S_key2}

ClientConfigs ==
    [ APIKey : APIKeys, Name : {Empty, S_alice, S_bob}, MaxParallelTasks : {0, 1} ]

\* the sequences over S of length at most n
RECURSIVE SeqsUpTo(_, _)
SeqsUpTo(S, n) ==
    IF n = 0 THEN {<<>>}
    ELSE SeqsUpTo(S, n - 1)
         \cup {Append(q, x) : q \in SeqsUpTo(S, n - 1), x \in S}

AuthConfigs == [Enabled : BOOLEAN, Clients : SeqsUpTo(ClientConfigs, MaxClients)]

\* the variables of the service, the ffmpeg section and the task store
base == <<cfg, task, verr, args, upload, outName, ffcfg, cfgErr, pixels, store, limited>>

\* the service, the ffmpeg section and the task store are not in use
InitBase ==
    /\ cfg = TestCfg
    /\ task = MinimalTask(S_mp4)
    /\ verr = NotRun
    /\ args = <<>>
    /\ upload = NoUpload
    /\ outName = Empty
    /\ ffcfg = NoFFCfg
    /\ cfgErr = NotRun
    /\ pixels = NoPixels
    /\ store = <<>>
    /\ limited = NoCount

InitAuth ==
    /\ InitBase
    /\ auth \in AuthConfigs
    /\ authErr = NotRun
    /\ lookup = NoLookup
    /\ bin = NoBinary
    /\ version = NoVersion
    /\ conf = <<>>
    /\ confErr = NotRun

\* Config.Validate's auth section, run by Load on the document read
DoValidateAuthConfig ==
    /\ authErr' = AuthConfigValidate(auth)
    /\ UNCHANGED <<base, auth, lookup, bin, version, conf, confErr>>

DoGetClientByAPIKey(apiKey) ==
    /\ lookup' = [called |-> TRUE, key |-> apiKey,
                  found |-> GetClientByAPIKey(auth, apiKey) # 0,
                  index |-> GetClientByAPIKey(auth, apiKey)]
    /\ UNCHANGED <<base, auth, authErr, bin, version, conf, confErr>>

NextAuth ==
    \/ DoValidateAuthConfig
    \/ \E k \in APIKeys : DoGetClientByAPIKey(k)

SpecAuth == InitAuth /\ [][NextAuth]_vars

\* the rules an auth-enabled client list has to meet
ClientsWellFormed(clients) ==
    /\ Len(clients) >= 1
    /\ \A i \in 1..Len(clients) :
          /\ clients[i].APIKey # Empty
          /\ clients[i].Name # Empty
          /\ clients[i].MaxParallelTasks >= 1
    /\ \A i, j \in 1..Len(clients) :
          i # j => /\ clients[i].APIKey # clients[j].APIKey
                   /\ clients[i].Name # clients[j].Name

\* C11: with auth enabled, AuthConfig.Validate succeeds only if there is a
\* client, every client has a non-empty API key and name, keys and names are
\* each unique and every max_parallel_tasks is >= 1 (and it does succeed
\* then); on such a configuration GetClientByAPIKey(k) returns the one client
\* whose key is k, and nil when no client has key k.
C11_ValidatedClientsAndLookup ==
    (authErr # NotRun /\ auth.Enabled) =>
        /\ (authErr = Nil) <=> ClientsWellFormed(auth.Clients)
        /\ (authErr = Nil /\ lookup.called) =>
              LET holders == {i \in 1..Len(auth.Clients) :
                                 auth.Clients[i].APIKey = lookup.key}
              IN /\ holders = {} => (~lookup.found /\ lookup.index = 0)
                 /\ holders # {} => (lookup.found /\ holders = {lookup.index})

\* on a validated list of two clients the second one was found by its key
C11_Witness ==
    /\ auth.Enabled /\ authErr = Nil /\ Len(auth.Clients) = 2
    /\ lookup.called /\ lookup.found /\ lookup.index = 2
    /\ auth.Clients[2].APIKey = lookup.key

----------------------------------------------------------------------------
(* Version query: Service.GetVersion *)

\* the error of exec.Cmd.Output: the binary could not be started or exited
\* with a failure status
ExecError == [cause |-> "ExecError", msg |-> "exec failure", ctx |-> <<>>]

\* unicode.IsSpace on the characters in use
IsSpace(c) == c \in {" ", "\t", "\n", "\f", "\r"}

RECURSIVE TrimLeft(_)
TrimLeft(s) == IF s # Empty /\ IsSpace(Head(s)) THEN TrimLeft(Tail(s)) ELSE s

RECURSIVE TrimRight(_)
TrimRight(s) ==
    IF s # Empty /\ IsSpace(s[Len(s)])
    THEN TrimRight(SubSeq(s, 1, Len(s) - 1)) ELSE s

\* strings.TrimSpace
TrimSpace(s) == TrimRight(TrimLeft(s))

\* variant: the first line is returned as it is
GetVersion_NoTrim(b) ==
    IF b.fails
    THEN [val |-> Empty, err |-> Wrap(ExecError, "failed to get ffmpeg version")]
    ELSE LET lines == Split(b.output, "\n")
         IN IF Len(lines) > 0
            THEN [val |-> lines[1], err |-> Nil]
            ELSE [val |-> b.output, err |-> Nil]

\* Service.GetVersion, b being what cmd.Output() gives
GetVersion(b) ==
    IF b.fails
    THEN [val |-> Empty, err |-> Wrap(ExecError, "failed to get ffmpeg version")]
    ELSE LET lines == Split(b.output, "\n")
         IN IF Len(lines) > 0
            THEN [val |-> TrimSpace(lines[1]), err |-> Nil]
            ELSE [val |-> b.output, err |-> Nil]

\* longest output of the binary
MaxOutputLen == 3

OutputChars == {"v", " ", "\n", "\r"}

\* the binary fails or succeeds, with any short output
Binaries == [fails : BOOLEAN, output : Strings(OutputChars, MaxOutputLen)]

InitVersion ==
    /\ InitBase
    /\ auth = NoAuth
    /\ authErr = NotRun
    /\ lookup = NoLookup
    /\ bin \in Binaries
    /\ version = NoVersion
    /\ conf = <<>>
    /\ confErr = NotRun

DoGetVersion ==
    /\ version' = GetVersion(bin)
    /\ UNCHANGED <<base, auth, authErr, lookup, bin, conf, confErr>>

NextVersion == DoGetVersion

SpecVersion == InitVersion /\ [][NextVersion]_vars

\* the output up to its first newline
FirstLine(out) ==
    IF \E i \in 1..Len(out) : out[i] = "\n"
    THEN SubSeq(out, 1, (CHOOSE i \in 1..Len(out) :
                            out[i] = "\n" /\ \A j \in 1..(i - 1) : out[j] # "\n") - 1)
    ELSE out

\* v is line without its leading and trailing white space
IsTrimOf(v, line) ==
    /\ v = Empty \/ (~IsSpace(v[1]) /\ ~IsSpace(v[Len(v)]))
    /\ \E a \in 1..(Len(line) + 1) :
          /\ a + Len(v) - 1 <= Len(line)
          /\ v = SubSeq(line, a, a + Len(v) - 1)
          /\ \A i \in 1..(a - 1) : IsSpace(line[i])
          /\ \A i \in (a + Len(v))..Len(line) : IsSpace(line[i])

\* C12 (as stated): GetVersion returns the trimmed first line on success; when
\* the binary cannot be run, fails, or gives empty output, it returns an
\* execution error, never a validation error, and no version string.
C12_VersionAsStated ==
    version.err # NotRun =>
        IF bin.fails \/ bin.output = Empty
        THEN version.err.cause = "ExecError" /\ version.val = Empty
        ELSE version.err = Nil /\ IsTrimOf(version.val, FirstLine(bin.output))

\* C12 (amended): when the binary cannot be run or fails, GetVersion returns
\* an execution error, never a validation error, and no version string;
\* otherwise it returns no error and the trimmed first line of the output,
\* which is the empty string when the output is empty.
C12_VersionOrExecError ==
    version.err # NotRun =>
        IF bin.fails
        THEN /\ version.err.cause = "ExecError"
             /\ version.err.cause # "ErrInvalidParameter"
             /\ version.err.ctx = <<"failed to get ffmpeg version">>
             /\ version.val = Empty
        ELSE /\ version.err = Nil
             /\ IsTrimOf(version.val, FirstLine(bin.output))
             /\ bin.output = Empty => version.val = Empty

\* the first of two lines was returned without the blank before it
C12_Witness ==
    /\ ~bin.fails /\ bin.output = <<" ", "v", "\n">>
    /\ version.err = Nil /\ version.val = <<"v">>

----------------------------------------------------------------------------
(* Configuration schema: the other sections and Config.Validate *)

\* the error of time.ParseDuration
ErrDuration == [cause |-> "ErrDuration", msg |-> "time: invalid duration", ctx |-> <<>>]

\* the keys of time's unitMap written in ASCII
DurationUnits ==
    { <<"n", "s">>, <<"u", "s">>, <<"m", "s">>, <<"s">>, <<"m">>, <<"h">> }

IsNumberChar(c) == c = "." \/ IsDigit(c)

\* number of leading digits of s (what leadingInt and leadingFraction consume)
RECURSIVE DigitPrefix(_)
DigitPrefix(s) ==
    IF s # Empty /\ IsDigit(Head(s)) THEN 1 + DigitPrefix(Tail(s)) ELSE 0

\* number of leading characters of s that are neither a digit nor a dot
RECURSIVE UnitPrefix(_)
UnitPrefix(s) ==
    IF s # Empty /\ ~IsNumberChar(Head(s)) THEN 1 + UnitPrefix(Tail(s)) ELSE 0

Drop(s, n) == SubSeq(s, n + 1, Len(s))

\* the loop of time.ParseDuration over the groups number, fraction, unit:
\* TRUE when every group is well formed (values that overflow are out of reach)
RECURSIVE DurationGroups(_)
DurationGroups(s) ==
    IF s = Empty THEN TRUE
    ELSE IF ~IsNumberChar(Head(s)) THEN FALSE
    ELSE LET pre   == DigitPrefix(s)
             s1    == Drop(s, pre)
             dot   == s1 # Empty /\ Head(s1) = "."
             s2    == IF dot THEN Tail(s1) ELSE s1
             post  == IF dot THEN DigitPrefix(s2) ELSE 0
             s3    == Drop(s2, post)
             u     == UnitPrefix(s3)
         IN IF pre = 0 /\ post = 0 THEN FALSE
            ELSE IF u = 0 THEN FALSE
            ELSE IF SubSeq(s3, 1, u) \notin DurationUnits THEN FALSE
            ELSE DurationGroups(Drop(s3, u))

\* time.ParseDuration, its error only
ParseDuration(s) ==
    LET body == IF s # Empty /\ Head(s) \in {"-", "+"} THEN Tail(s) ELSE s
    IN IF body = <<"0">> THEN Nil
       ELSE IF body = Empty THEN ErrDuration
       ELSE IF DurationGroups(body) THEN Nil
       ELSE ErrDuration

\* highest port
MaxPort == 65535

ServerConfigValidate(sv) ==
    IF sv.Port <= 0 \/ sv.Port > MaxPort
    THEN ErrInvalidParameter("invalid port, must be 1-65535")
    ELSE IF ParseDuration(sv.ReadTimeout) # Nil
    THEN Wrap(ParseDuration(sv.ReadTimeout), "invalid read_timeout")
    ELSE IF ParseDuration(sv.WriteTimeout) # Nil
    THEN Wrap(ParseDuration(sv.WriteTimeout), "invalid write_timeout")
    ELSE IF sv.BindAddress = Empty
    THEN ErrInvalidParameter("bind_address cannot be empty")
    ELSE Nil

ProcessingConfigValidate(pr) ==
    IF pr.GlobalMaxParallelTasks < 1
    THEN ErrInvalidParameter("global_max_parallel_tasks must be >= 1")
    ELSE IF pr.WorkerCount < 1
    THEN ErrInvalidParameter("worker_count must be >= 1")
    ELSE IF pr.MaxFileSizeMB < 1
    THEN ErrInvalidParameter("max_file_size_mb must be >= 1")
    ELSE IF ParseDuration(pr.TaskTimeout) # Nil
    THEN Wrap(ParseDuration(pr.TaskTimeout), "invalid task_timeout")
    ELSE IF ParseDuration(pr.CleanupAge) # Nil
    THEN Wrap(ParseDuration(pr.CleanupAge), "invalid cleanup_age")
    ELSE Nil

StorageConfigValidate(st) ==
    IF st.TempDir = Empty
    THEN ErrInvalidParameter("temp_dir cannot be empty")
    ELSE IF st.DatabasePath = Empty
    THEN ErrInvalidParameter("database_path cannot be empty")
    ELSE Nil

S_debug == <<"d", "e", "b", "u", "g">>
S_info == <<"i", "n", "f", "o">>
S_warn == <<"w", "a", "r", "n">>
S_error == <<"e", "r", "r", "o", "r">>
S_trace == <<"t", "r", "a", "c", "e">>
S_json == <<"j", "s", "o", "n">>
S_text == <<"t", "e", "x", "t">>
S_xml == <<"x", "m", "l">>

LoggingConfigValidate(l) ==
    IF l.Level \notin {S_debug, S_info, S_warn, S_error}
    THEN ErrInvalidParameter("invalid log level")
    ELSE IF l.Format \notin {S_json, S_text}
    THEN ErrInvalidParameter("invalid log format")
    ELSE Nil

\* variant: the ffmpeg section is checked before the processing section
ConfigValidate_FFmpegBeforeProcessing(c) ==
    IF ServerConfigValidate(c.Server) # Nil
    THEN Wrap(ServerConfigValidate(c.Server), "server config")
    ELSE IF AuthConfigValidate(c.Auth) # Nil
    THEN Wrap(AuthConfigValidate(c.Auth), "auth config")
    ELSE IF FFmpegConfigValidate(c.FFmpeg) # Nil
    THEN Wrap(FFmpegConfigValidate(c.FFmpeg), "ffmpeg config")
    ELSE IF ProcessingConfigValidate(c.Processing) # Nil
    THEN Wrap(ProcessingConfigValidate(c.Processing), "processing config")
    ELSE IF StorageConfigValidate(c.Storage) # Nil
    THEN Wrap(StorageConfigValidate(c.Storage), "storage config")
    ELSE IF LoggingConfigValidate(c.Logging) # Nil
    THEN Wrap(LoggingConfigValidate(c.Logging), "logging config")
    ELSE Nil

\* Config.Validate
ConfigValidate(c) ==
    IF ServerConfigValidate(c.Server) # Nil
    THEN Wrap(ServerConfigValidate(c.Server), "server config")
    ELSE IF AuthConfigValidate(c.Auth) # Nil
    THEN Wrap(AuthConfigValidate(c.Auth), "auth config")
    ELSE IF ProcessingConfigValidate(c.Processing) # Nil
    THEN Wrap(ProcessingConfigValidate(c.Processing), "processing config")
    ELSE IF FFmpegConfigValidate(c.FFmpeg) # Nil
    THEN Wrap(FFmpegConfigValidate(c.FFmpeg), "ffmpeg config")
    ELSE IF StorageConfigValidate(c.Storage) # Nil
    THEN Wrap(StorageConfigValidate(c.Storage), "storage config")
    ELSE IF LoggingConfigValidate(c.Logging) # Nil
    THEN Wrap(LoggingConfigValidate(c.Logging), "logging config")
    ELSE Nil

S_30s == <<"3", "0", "s">>
S_1h30m == <<"1", "h", "3", "0", "m">>
S_5x == <<"5", "x">>
S_0 == <<"0">>
S_s == <<"s">>
S_1p5h == <<"1", ".", "5", "h">>
S_30 == <<"3", "0">>
S_addr == <<"0", ".", "0", ".", "0", ".", "0">>
S_tmp == <<"/", "t", "m", "p">>
S_db == <<"a", ".", "d", "b">>

ServerConfigs ==
    [ Port         : {0, 1, MaxPort, MaxPort + 1},
      ReadTimeout  : {S_30s, Empty},
      WriteTimeout : {S_1h30m, S_5x},
      BindAddress  : {S_addr, Empty} ]

ProcessingConfigs ==
    [ GlobalMaxParallelTasks : {0, 1},
      WorkerCount            : {0, 1},
      MaxFileSizeMB          : {0, 1},
      TaskTimeout            : {S_0, S_s},
      CleanupAge             : {S_1p5h, S_30} ]

StorageConfigs == [TempDir : {S_tmp, Empty}, DatabasePath : {S_db, Empty}]

LoggingConfigs == [Level : {S_info, S_trace}, Format : {S_text, S_xml}]

GoodClient == [APIKey |-> S_key1, Name |-> S_alice, MaxParallelTasks |-> 1]

\* auth sections: disabled with a bad client, enabled without a client,
\* enabled with one good client, enabled with the same client twice
AuthSamples ==
    { [Enabled |-> FALSE, Clients |-> <<[GoodClient EXCEPT !.APIKey = Empty]>>],
      [Enabled |-> TRUE, Clients |-> <<>>],
      [Enabled |-> TRUE, Clients |-> <<GoodClient>>],
      [Enabled |-> TRUE, Clients |-> <<GoodClient, GoodClient>>] }

GoodFFmpeg ==
    [ BinaryPath |-> S_ffmpeg, AllowedOutputFormats |-> <<S_mp4>>,
      AllowedVideoCodecs |-> <<S_libx264>>, AllowedAudioCodecs |-> <<S_aac>>,
      AllowedPresets |-> <<S_medium>>, MaxResolution |-> <<"2", "x", "2">>,
      MaxFramerate |-> 1 ]

\* ffmpeg sections: good, no binary path, a malformed resolution, no presets
FFmpegSamples ==
    { GoodFFmpeg,
      [GoodFFmpeg EXCEPT !.BinaryPath = Empty],
      [GoodFFmpeg EXCEPT !.MaxResolution = <<"x">>],
      [GoodFFmpeg EXCEPT !.AllowedPresets = <<>>] }

\* config.Config documents
Configs ==
    [ Server : ServerConfigs, Auth : AuthSamples, Processing : ProcessingConfigs,
      FFmpeg : FFmpegSamples, Storage : StorageConfigs, Logging : LoggingConfigs ]

InitLoad ==
    /\ InitBase
    /\ auth = NoAuth
    /\ authErr = NotRun
    /\ lookup = NoLookup
    /\ bin = NoBinary
    /\ version = NoVersion
    /\ conf \in Configs
    /\ confErr = NotRun

\* Config.Validate, run by Load on the document read
DoConfigValidate ==
    /\ confErr' = ConfigValidate(conf)
    /\ UNCHANGED <<base, auth, authErr, lookup, bin, version, conf>>

NextLoad == DoConfigValidate

SpecLoad == InitLoad /\ [][NextLoad]_vars

SectionNames ==
    << "server config", "auth config", "processing config",
       "ffmpeg config", "storage config", "logging config" >>

\* the result of each section's own validation, in the order of SectionNames
SectionErrors(c) ==
    << ServerConfigValidate(c.Server), AuthConfigValidate(c.Auth),
       ProcessingConfigValidate(c.Processing), FFmpegConfigValidate(c.FFmpeg),
       StorageConfigValidate(c.Storage), LoggingConfigValidate(c.Logging) >>

FailingSections(c) == {i \in 1..6 : SectionErrors(c)[i] # Nil}

\* C13: Config.Validate succeeds exactly when all six sections validate, and
\* otherwise returns the error of the earliest failing section in the order
\* server, auth, processing, ffmpeg, storage, logging, with that section's
\* name as its outermost context.
C13_FirstFailingSection ==
    confErr # NotRun =>
        /\ (confErr = Nil) <=> (FailingSections(conf) = {})
        /\ FailingSections(conf) # {} =>
              LET first == CHOOSE i \in FailingSections(conf) :
                              \A j \in FailingSections(conf) : i <= j
              IN /\ confErr.ctx[1] = SectionNames[first]
                 /\ confErr.cause = SectionErrors(conf)[first].cause
                 /\ confErr.msg = SectionErrors(conf)[first].msg
                 /\ Tail(confErr.ctx) = SectionErrors(conf)[first].ctx

\* processing, ffmpeg and logging all fail and the processing error is returned
C13_Witness ==
    /\ confErr # NotRun
    /\ {3, 4, 6} \subseteq FailingSections(conf)
    /\ confErr.ctx = <<"processing config", "invalid cleanup_age">>

----------------------------------------------------------------------------
(* Properties of the gate followed by the synthesizer *)

\* the decimal string v denotes an integer in lo..hi
DenotesIn(v, lo, hi) ==
    /\ Atoi(v).err = Nil
    /\ Atoi(v).val >= lo
    /\ Atoi(v).val <= hi

\* the value v that follows flag f in an argument vector is within policy c
InPolicy(c, f, v) ==
    /\ f = F_f => v \in Range(c.AllowedOutputFormats)
    /\ f = F_cv => v \in Range(c.AllowedVideoCodecs)
    /\ f = F_ca => v \in Range(c.AllowedAudioCodecs)
    /\ f = F_preset => v \in Range(c.AllowedPresets)
    /\ f \in {F_bv, F_ba} => (Atoi(v).err = Nil /\ Atoi(v).val > 0)
    /\ f = F_s =>
          /\ Len(Split(v, "x")) = 2
          /\ DenotesIn(Split(v, "x")[1], 1, c.MaxWidth)
          /\ DenotesIn(Split(v, "x")[2], 1, c.MaxHeight)
    /\ f = F_r => DenotesIn(v, 1, c.MaxFramerate)

\* C14: for a task that ValidateTask accepts, the argument vector built by
\* buildCommandArgs holds only in-policy values: the value after -f, -c:v,
\* -c:a, -preset is in its allow-list, a -b:v or -b:a value is > 0, a -s
\* value has its width in 1..MaxWidth and its height in 1..MaxHeight, and a
\* -r value is in 1..MaxFramerate.
C14_AcceptedArgsInPolicy ==
    (verr = Nil /\ args # <<>>) =>
        \A i \in 1..(Len(args) - 1) : InPolicy(cfg, args[i], args[i + 1])

\* an accepted task with every optional field set was synthesized
C14_Witness ==
    /\ verr = Nil
    /\ Len(args) = 20
    /\ \E i \in 1..Len(args) : args[i] = F_s
    /\ \E i \in 1..Len(args) : args[i] = F_r
    /\ \E i \in 1..Len(args) : args[i] = F_bv

\* C15: every task accepted by ValidateTask has a framerate of 0 or within
\* 1..MaxFramerate; none with a negative framerate or one above the maximum
\* is accepted.
C15_AcceptedFramerateInRange ==
    verr = Nil =>
        \/ task.Framerate = 0
        \/ (task.Framerate >= 1 /\ task.Framerate <= cfg.MaxFramerate)

====
